---- MODULE Spec2Model ----
(***************************************************************************)
(* Real-Time Process Monitoring System: analytics.py (rolling history and  *)
(* threshold alerts), collector.py (system sample, process list, process   *)
(* termination) and the refresh cycle of gui.py.                           *)
(*                                                                         *)
(* Percentages are fixed-point numbers in hundredths of a percent          *)
(* (90.04 % is 9004), so that the one-decimal formatting of the alert      *)
(* messages is a real conversion.  A dict is a record; a dict that lacks a *)
(* key is a record without that field.  A value that may be None is a      *)
(* sequence of length 0 (None) or 1 (the value).                           *)
(***************************************************************************)
EXTENDS Integers, Sequences, FiniteSets, TLC

VARIABLES
    max_history,        \* maxlen of the three deques
    time_history,       \* AnalyticsEngine.time_history
    cpu_history,        \* AnalyticsEngine.cpu_history
    memory_history,     \* AnalyticsEngine.memory_history
    clock,              \* wall clock, in seconds
    timeLog,            \* history variable: everything appended to time_history
    cpuLog,             \* history variable: everything appended to cpu_history
    memLog,             \* history variable: everything appended to memory_history
    alerts,             \* the list the last completed check_alerts returned
    alertsFor,          \* <<stats>> of that call, <<>> before the first one
    callResult,         \* how the last call ended: "none", "ok" or the exception
    enumerated,         \* the processes psutil.process_iter yielded to the last call
    procResult,         \* what the last get_process_list call did
    running,            \* operating system: the pids of the running processes
    denied,             \* operating system: the pids the caller may not signal
    termSent,           \* operating system: the pids a terminate request reached
    killCall,           \* what the last kill_process call did
    current_processes,  \* MainWindow._current_processes
    alert_list,         \* MainWindow.alert_list, the texts of its items
    tickResult,         \* how the last refresh_dashboard ended
    nTicks,             \* history variable: the refresh_dashboard calls so far
    lastTick,           \* history variable: what psutil did in the last one
    table,              \* MainWindow.table: per row, the pid its Kill button holds
    emitted,            \* history variable: the alerts check_alerts returned in
                        \* the last refresh_dashboard, << >> if it did not run
    shown,              \* history variable: every text added to alert_list
    stack,              \* the handlers on the call stack of the GUI thread
    events              \* history variable: dialogs, answers and kill_process calls

historyVars == <<time_history, cpu_history, memory_history, timeLog, cpuLog, memLog>>

analyticsVars == <<max_history, time_history, cpu_history, memory_history,
                   timeLog, cpuLog, memLog, alerts, alertsFor>>

procVars == <<enumerated, procResult>>

killVars == <<running, denied, termSent, killCall>>

guiVars == <<current_processes, alert_list, tickResult, nTicks, lastTick,
             table, emitted, shown>>

loopVars == <<stack, events>>

vars == <<max_history, time_history, cpu_history, memory_history, clock,
          timeLog, cpuLog, memLog, alerts, alertsFor, callResult,
          enumerated, procResult, running, denied, termSent, killCall,
          current_processes, alert_list, tickResult, nTicks, lastTick,
          table, emitted, shown, stack, events>>

----------------------------------------------------------------------------
(* Bounds of the model *)

MaxCap == 2             \* capacities 1..MaxCap
MaxAppends == 3         \* update_history calls in one behaviour
MaxClock == 2           \* the clock runs from 0 to MaxClock
MaxTicks == 3           \* refresh_dashboard calls in one behaviour
MaxPid == 3             \* pids 1..MaxPid
MaxClicks == 2          \* clicks on a Kill button in one behaviour
MaxBelow == 2           \* alert_list starts with MAX_ALERTS - MaxBelow items or more
MaxExtra == 2           \* items shown beyond MAX_ALERTS in one behaviour

----------------------------------------------------------------------------
(* Values *)

\* n percent, in hundredths of a percent
Pct(n) == n * 100

Pcts == {7960, 8000, 8004, 9000, 9004, 9520}

\* the dicts handed to the engine where its history is explored: two complete
\* ones whose values differ in both metrics, and two that lack a key
HistStats ==
    { [cpu_percent |-> 8000, memory_percent |-> 9004],
      [cpu_percent |-> 9004, memory_percent |-> 8000],
      [cpu_percent |-> 8000],
      [memory_percent |-> 8000] }

\* dicts a caller can hand to the engine: complete ones, and ones lacking a key
StatsOver(P) ==
    [cpu_percent : P, memory_percent : P] \cup [cpu_percent : P]
        \cup [memory_percent : P]

CompleteStats(P) == [cpu_percent : P, memory_percent : P]

HasKey(d, k) == k \in DOMAIN d

SecondsPerDay == 86400

\* main.py line 13: AnalyticsEngine(max_history=60)
MAX_HISTORY == 60

\* time.strftime("%H:%M:%S"): the time of day, to the second
Strftime(t) == t % SecondsPerDay

\* f"{x:.1f}": x rounded to one decimal (tenths of a percent). The values used
\* are never halfway between two tenths.
Fmt1(x) == (x + 5) \div 10

LastN(s, n) == IF Len(s) <= n THEN s ELSE SubSeq(s, Len(s) - n + 1, Len(s))

----------------------------------------------------------------------------
(* analytics.py *)

DequeAppendKeepOldest(d, x, maxlen) ==
    IF Len(d) >= maxlen THEN d ELSE Append(d, x)

\* collections.deque(maxlen=maxlen).append(x)
DequeAppend(d, x, maxlen) ==
    IF maxlen = 0 THEN d
    ELSE IF Len(d) >= maxlen THEN Append(Tail(d), x)
    ELSE Append(d, x)

\* AnalyticsEngine.update_history(stats), the clock reading `t` at line 19
UpdateHistoryAt(stats, t) ==
    LET now == Strftime(t)
        hasCpu == HasKey(stats, "cpu_percent")
        hasMem == HasKey(stats, "memory_percent")
    IN  /\ time_history' = DequeAppend(time_history, now, max_history)
        /\ timeLog' = Append(timeLog, now)
        /\ IF hasCpu
             THEN /\ cpu_history' =
                        DequeAppend(cpu_history, stats.cpu_percent, max_history)
                  /\ cpuLog' = Append(cpuLog, stats.cpu_percent)
             ELSE UNCHANGED <<cpu_history, cpuLog>>
        /\ IF hasCpu /\ hasMem
             THEN /\ memory_history' =
                        DequeAppend(memory_history, stats.memory_percent, max_history)
                  /\ memLog' = Append(memLog, stats.memory_percent)
             ELSE UNCHANGED <<memory_history, memLog>>

CpuAlertsInclusive(cpu, now) ==
    IF cpu >= Pct(90)
      THEN << [level |-> "CRITICAL",
               message |-> [text |-> "CPU usage is", value |-> Fmt1(cpu)],
               time |-> now] >>
    ELSE IF cpu >= Pct(80)
      THEN << [level |-> "WARNING",
               message |-> [text |-> "CPU usage is high:", value |-> Fmt1(cpu)],
               time |-> now] >>
    ELSE << >>

\* check_alerts, lines 34-46
CpuAlerts(cpu, now) ==
    IF cpu > Pct(90)
      THEN << [level |-> "CRITICAL",
               message |-> [text |-> "CPU usage is", value |-> Fmt1(cpu)],
               time |-> now] >>
    ELSE IF cpu > Pct(80)
      THEN << [level |-> "WARNING",
               message |-> [text |-> "CPU usage is high:", value |-> Fmt1(cpu)],
               time |-> now] >>
    ELSE << >>

\* check_alerts, lines 48-60
MemAlerts(mem, now) ==
    IF mem > Pct(90)
      THEN << [level |-> "CRITICAL",
               message |-> [text |-> "Memory usage is", value |-> Fmt1(mem)],
               time |-> now] >>
    ELSE IF mem > Pct(80)
      THEN << [level |-> "WARNING",
               message |-> [text |-> "Memory usage is high:", value |-> Fmt1(mem)],
               time |-> now] >>
    ELSE << >>

\* AnalyticsEngine.check_alerts(stats) for a complete dict, the clock reading
\* `t` at line 32: the list returned
CheckAlertsAt(stats, t) ==
    CpuAlerts(stats.cpu_percent, Strftime(t))
        \o MemAlerts(stats.memory_percent, Strftime(t))

\* the call update_history(stats)
update_history(stats) ==
    /\ Len(timeLog) < MaxAppends
    /\ UpdateHistoryAt(stats, clock)
    /\ callResult' =
         IF HasKey(stats, "cpu_percent") /\ HasKey(stats, "memory_percent")
           THEN "ok" ELSE "KeyError"
    /\ UNCHANGED <<max_history, clock, alerts, alertsFor>>
    /\ UNCHANGED <<procVars, killVars, guiVars, loopVars>>

\* the call check_alerts(stats)
check_alerts(stats) ==
    /\ IF HasKey(stats, "cpu_percent") /\ HasKey(stats, "memory_percent")
         THEN /\ alerts' = CheckAlertsAt(stats, clock)
              /\ alertsFor' = <<stats>>
              /\ callResult' = "ok"
         ELSE /\ callResult' = "KeyError"
              /\ UNCHANGED <<alerts, alertsFor>>
    /\ UNCHANGED <<max_history, time_history, cpu_history, memory_history,
                   timeLog, cpuLog, memLog, clock>>
    /\ UNCHANGED <<procVars, killVars, guiVars, loopVars>>

\* the wall clock moves on
ClockAdvance ==
    /\ clock < MaxClock
    /\ clock' = clock + 1
    /\ UNCHANGED <<analyticsVars, callResult, procVars, killVars, guiVars, loopVars>>

\* AnalyticsEngine.__init__(max_history)
EngineInit(cap) ==
    /\ max_history = cap
    /\ time_history = << >>
    /\ cpu_history = << >>
    /\ memory_history = << >>
    /\ timeLog = << >>
    /\ cpuLog = << >>
    /\ memLog = << >>
    /\ alerts = << >>
    /\ alertsFor = << >>
    /\ callResult = "none"


----------------------------------------------------------------------------
(* collector.py: get_process_list *)

None == << >>
Some(v) == <<v>>
IsNone(x) == x = << >>

ProcessFaults == {"NoSuchProcess", "AccessDenied", "ZombieProcess"}

\* One process as psutil.process_iter yields it: `fault` is the exception its
\* detail read raises ("none": it raises nothing), and a detail psutil could
\* not read without raising is None.
ProcsOf(pid) ==
    [pid : {pid}, fault : ProcessFaults, cpu_percent : {None}, memory_info : {None}]
    \cup [pid : {pid}, fault : {"none"},
          cpu_percent : {None, Some(5000), Some(8000)},
          memory_info : {None, Some(3670016)}]

BytesPerMB == 1048576

\* lines 31-32: memory_mb, in hundredths of a megabyte
MemoryMb(mem_info) ==
    IF IsNone(mem_info) THEN 0 ELSE (mem_info[1] * 100) \div BytesPerMB

\* lines 34-40: the dict appended for one process
Entry(proc) ==
    [pid |-> proc.pid, cpu_percent |-> proc.cpu_percent,
     memory_mb |-> MemoryMb(proc.memory_info)]

\* lines 28-42: the loop; a process whose detail read raises one of the three
\* caught exceptions is skipped
RECURSIVE Collect(_)
Collect(procs) ==
    IF procs = << >> THEN << >>
    ELSE IF Head(procs).fault \in ProcessFaults THEN Collect(Tail(procs))
    ELSE <<Entry(Head(procs))>> \o Collect(Tail(procs))

RECURSIVE InsertBeforeEqual(_, _)
InsertBeforeEqual(sorted, e) ==
    IF sorted = << >> THEN <<e>>
    ELSE IF Head(sorted).cpu_percent[1] > e.cpu_percent[1]
      THEN <<Head(sorted)>> \o InsertBeforeEqual(Tail(sorted), e)
    ELSE <<e>> \o sorted

\* e placed behind every entry whose key is greater than or equal to its own
RECURSIVE InsertDesc(_, _)
InsertDesc(sorted, e) ==
    IF sorted = << >> THEN <<e>>
    ELSE IF Head(sorted).cpu_percent[1] >= e.cpu_percent[1]
      THEN <<Head(sorted)>> \o InsertDesc(Tail(sorted), e)
    ELSE <<e>> \o sorted

\* line 45, list.sort(key=cpu_percent, reverse=True) on keys that compare: the
\* stable sort, descending
RECURSIVE SortDesc(_)
SortDesc(list) ==
    IF Len(list) <= 1 THEN list
    ELSE InsertDesc(SortDesc(SubSeq(list, 1, Len(list) - 1)), list[Len(list)])

\* line 45: sorting two or more entries compares keys, and comparing None
\* raises TypeError
SortRaises(list) ==
    /\ Len(list) >= 2
    /\ \E i \in 1..Len(list) : IsNone(list[i].cpu_percent)

\* get_process_list() over the processes psutil yields
GetProcessList(procs) ==
    LET processes == Collect(procs)
    IN  IF SortRaises(processes)
          THEN [outcome |-> "TypeError", list |-> << >>]
          ELSE [outcome |-> "returned", list |-> SortDesc(processes)]

\* the call get_process_list(), psutil yielding `enumerated`
get_process_list ==
    /\ procResult.outcome = "none"
    /\ procResult' = GetProcessList(enumerated)
    /\ UNCHANGED <<enumerated, analyticsVars, clock, callResult, killVars, guiVars,
                   loopVars>>

ProcInit(procs) ==
    /\ enumerated = procs
    /\ procResult = [outcome |-> "none", list |-> << >>]

----------------------------------------------------------------------------
(* collector.py: kill_process *)

KillResultTimeoutIsSuccess(ctor, term, wait) ==
    IF ctor # "ok" THEN (IF ctor = "NoSuchProcess" THEN "False" ELSE ctor)
    ELSE IF term # "ok" THEN "False"
    ELSE "True"

\* lines 54-60: the try block runs psutil.Process(pid), p.terminate() and
\* p.wait(timeout=3) until one raises; `ctor`, `term` and `wait` are "ok" or
\* the exception raised. The result is "True", "False", or the exception that
\* escapes the except clause.
KillResult(ctor, term, wait) ==
    LET raised == IF ctor # "ok" THEN ctor
                  ELSE IF term # "ok" THEN term
                  ELSE wait
    IN  IF raised = "ok" THEN "True"
        ELSE IF raised \in {"NoSuchProcess", "AccessDenied", "TimeoutExpired"}
          THEN "False"
        ELSE raised

\* psutil.Process(pid): a negative pid is refused with ValueError, a pid of no
\* running process with NoSuchProcess
ProcessCtor(pid) ==
    IF pid < 0 THEN "ValueError"
    ELSE IF pid \notin running THEN "NoSuchProcess"
    ELSE "ok"

\* the call kill_process(pid). `vanishes`: the process exits by itself between
\* lines 55 and 56; `exits`: it exits within the 3 seconds of line 57.
kill_process(pid, vanishes, exits) ==
    LET ctor == ProcessCtor(pid)
        term == IF ctor # "ok" THEN "skipped"
                ELSE IF vanishes THEN "NoSuchProcess"
                ELSE IF pid \in denied THEN "AccessDenied"
                ELSE "ok"
        wait == IF term # "ok" THEN "skipped"
                ELSE IF exits THEN "ok"
                ELSE "TimeoutExpired"
    IN  /\ killCall' = [pid |-> pid, ctor |-> ctor, term |-> term, wait |-> wait,
                        result |-> KillResult(ctor, term, wait)]
        /\ termSent' = IF term = "ok" THEN termSent \cup {pid} ELSE termSent
        /\ running' = IF term = "NoSuchProcess" \/ wait = "ok"
                        THEN running \ {pid} ELSE running
        /\ UNCHANGED <<denied, analyticsVars, clock, callResult, procVars, guiVars>>

\* a process ends by itself
ProcessExits(pid) ==
    /\ pid \in running
    /\ running' = running \ {pid}
    /\ UNCHANGED <<denied, termSent, killCall>>
    /\ UNCHANGED <<analyticsVars, clock, callResult, procVars, guiVars, loopVars>>

KillInit(run, den) ==
    /\ running = run
    /\ denied = den
    /\ termSent = {}
    /\ killCall = [pid |-> 0, ctor |-> "none", term |-> "none", wait |-> "none",
                   result |-> "none"]

----------------------------------------------------------------------------
(* collector.py: get_system_stats; gui.py: the refresh cycle *)

\* lines 8-16: the dict built from psutil.cpu_percent() and
\* psutil.virtual_memory()
GetSystemStats(cpu, mem) ==
    [cpu_percent |-> cpu, memory_used |-> mem.used, memory_total |-> mem.total,
     memory_percent |-> mem.percent]

MAX_ALERTS == 100

\* update_alerts, line 581: the text of one item
AlertText(alert) == <<alert.time, alert.level, alert.message>>

TakeOldestOnce(items) ==
    IF Len(items) > MAX_ALERTS THEN Tail(items) ELSE items

\* update_alerts, lines 591-592
RECURSIVE TakeOldest(_)
TakeOldest(items) ==
    IF Len(items) > MAX_ALERTS THEN TakeOldest(Tail(items)) ELSE items

\* MainWindow.update_alerts(alerts): the items of alert_list afterwards
UpdateAlerts(items, new) ==
    TakeOldest(items \o [i \in 1..Len(new) |-> AlertText(new[i])])

\* _populate_table, line 498: formatting the cpu_percent of a row raises
\* TypeError when it is None
PopulateTableRaises(processes) ==
    \E i \in 1..Len(processes) : IsNone(processes[i].cpu_percent)

\* _populate_table, lines 484-518: the Kill buttons of the rows afterwards.
\* setRowCount keeps the cells of the rows that stay; each row gets a new
\* button bound to its pid (line 517) until a row raises at line 498.
PopulateTable(old, processes) ==
    [i \in 1..Len(processes) |->
        IF \A k \in 1..i : ~IsNone(processes[k].cpu_percent)
          THEN Some(processes[i].pid)
        ELSE IF i <= Len(old) THEN old[i]
        ELSE None]

SystemStatsRaisedZeroFill ==
    LET stats == GetSystemStats(0, [used |-> 0, total |-> 0, percent |-> 0])
    IN  /\ UpdateHistoryAt(stats, clock)
        /\ alerts' = CheckAlertsAt(stats, clock)
        /\ alertsFor' = <<stats>>
        /\ tickResult' = "ok"
        /\ emitted' = alerts'
        /\ UNCHANGED <<clock, current_processes, alert_list, table, shown>>

\* refresh_dashboard when line 415 raises: the exception leaves the handler
\* and nothing below line 415 runs
SystemStatsRaised ==
    /\ tickResult' = "get_system_stats raised"
    /\ emitted' = << >>
    /\ UNCHANGED <<historyVars, alerts, alertsFor, clock,
                   current_processes, alert_list, table, shown>>

\* refresh_dashboard when line 416 raises: the exception leaves the handler
\* and nothing below line 416 runs
ProcessListRaised ==
    /\ tickResult' = "get_process_list raised"
    /\ emitted' = << >>
    /\ UNCHANGED <<historyVars, alerts, alertsFor, clock,
                   current_processes, alert_list, table, shown>>

\* refresh_dashboard, lines 417-425, with the sample and the process list
RefreshWith(stats, processes, d) ==
    /\ current_processes' = processes
    /\ UpdateHistoryAt(stats, clock)
    /\ alerts' = CheckAlertsAt(stats, clock + d)
    /\ alertsFor' = <<stats>>
    /\ clock' = clock + d
    /\ emitted' = alerts'
    /\ table' = PopulateTable(table, processes)
    /\ IF PopulateTableRaises(processes)
         THEN \* line 423 raises: lines 424-425 do not run
              /\ tickResult' = "_populate_table raised"
              /\ UNCHANGED <<alert_list, shown>>
         ELSE /\ tickResult' = "ok"
              /\ alert_list' = UpdateAlerts(alert_list, alerts')
              /\ shown' = shown \o [i \in 1..Len(alerts') |-> AlertText(alerts'[i])]

\* MainWindow.refresh_dashboard(), lines 414-425. `sysFails`: psutil raises in
\* get_system_stats, which otherwise reads `cpu` and `mem`; `enumFails`: psutil
\* raises in get_process_list, which otherwise is yielded `procs`; `d`: the
\* seconds the clock moves between line 19 and line 32 of analytics.py.
refresh_dashboard(sysFails, cpu, mem, enumFails, procs, d) ==
    /\ nTicks < MaxTicks
    /\ clock + d <= MaxClock
    /\ nTicks' = nTicks + 1
    /\ lastTick' = [sysFails |-> sysFails,
                    sample |-> IF sysFails THEN << >>
                               ELSE <<GetSystemStats(cpu, mem)>>,
                    listFails |-> ~sysFails /\
                        (enumFails \/ GetProcessList(procs).outcome # "returned")]
    /\ IF sysFails
         THEN SystemStatsRaised
         ELSE LET pl == IF enumFails THEN [outcome |-> "OSError", list |-> << >>]
                        ELSE GetProcessList(procs)
              IN  IF pl.outcome # "returned"
                    THEN ProcessListRaised
                    ELSE RefreshWith(GetSystemStats(cpu, mem), pl.list, d)
    /\ UNCHANGED <<max_history, callResult, procVars, killVars>>

\* MainWindow.__init__, lines 241-243
GuiInit ==
    /\ current_processes = << >>
    /\ alert_list = << >>
    /\ tickResult = "none"
    /\ nTicks = 0
    /\ lastTick = [sysFails |-> FALSE, sample |-> << >>, listFails |-> FALSE]
    /\ table = << >>
    /\ emitted = << >>
    /\ shown = << >>

\* the event loop of main.py line 17 runs, no handler is active
LoopInit ==
    /\ stack = << >>
    /\ events = << >>

----------------------------------------------------------------------------
(* gui.py: the event loop, the timer and handle_kill_process *)

Top == stack[Len(stack)]
Pop == SubSeq(stack, 1, Len(stack) - 1)

RefreshFrame == [h |-> "refresh", pid |-> 0, at |-> "run"]
KillFrame(pid, at) == [h |-> "kill", pid |-> pid, at |-> at]

Event(kind, pid, arg) == [kind |-> kind, pid |-> pid, arg |-> arg]

IsRefresh(f) == f.h = "refresh"
IsConfirm(e) == e.kind = "confirm"

\* the refresh_dashboard calls on the stack, the confirmation dialogs so far
RefreshFrames == Len(SelectSeq(stack, IsRefresh))
Confirms == Len(SelectSeq(events, IsConfirm))

EventLoopRunsAnywhere == TRUE

\* Events are delivered by an event loop of the GUI thread: the loop of
\* main.py line 17 when no handler is active, and the loop of a QMessageBox
\* (lines 595, 604, 606) while handle_kill_process waits in it.
\* refresh_dashboard runs no event loop.
EventLoopRuns == IF stack = << >> THEN TRUE ELSE Top.h = "kill"

\* lines 245-249: the timer times out and the event loop calls
\* refresh_dashboard
TimerTimeout ==
    /\ EventLoopRuns
    /\ nTicks + RefreshFrames < MaxTicks
    /\ stack' = Append(stack, RefreshFrame)
    /\ UNCHANGED <<analyticsVars, clock, callResult, procVars, killVars, guiVars,
                   events>>

\* refresh_dashboard, called by the event loop, runs and returns or raises
RefreshRuns(sysFails, cpu, mem, enumFails, procs, d) ==
    /\ stack # << >>
    /\ Top.h = "refresh"
    /\ refresh_dashboard(sysFails, cpu, mem, enumFails, procs, d)
    /\ stack' = Pop
    /\ UNCHANGED events

\* line 517: the Kill button of row i is clicked; lines 595-600 open the
\* confirmation dialog, which is modal
ClickKill(i) ==
    /\ stack = << >>
    /\ Confirms < MaxClicks
    /\ i \in 1..Len(table)
    /\ ~IsNone(table[i])
    /\ stack' = <<KillFrame(table[i][1], "confirm")>>
    /\ events' = Append(events, Event("confirm", table[i][1], ""))
    /\ UNCHANGED <<analyticsVars, clock, callResult, procVars, killVars, guiVars>>

\* line 601 with reply No: the handler returns
AnswerNo ==
    /\ stack # << >>
    /\ Top.h = "kill"
    /\ Top.at = "confirm"
    /\ stack' = Pop
    /\ events' = Append(events, Event("no", Top.pid, ""))
    /\ UNCHANGED <<analyticsVars, clock, callResult, procVars, killVars, guiVars>>

ResultDialogSilentFailure(result) ==
    IF result = "True" THEN "Success" ELSE "none"

\* lines 603-606: the dialog that follows kill_process; none when it raised
ResultDialog(result) ==
    IF result = "True" THEN "Success"
    ELSE IF result = "False" THEN "Failed"
    ELSE "none"

\* lines 601-606 with reply Yes: kill_process runs, then the result dialog opens
AnswerYes(vanishes, exits) ==
    /\ stack # << >>
    /\ Top.h = "kill"
    /\ Top.at = "confirm"
    /\ kill_process(Top.pid, vanishes, exits)
    /\ LET dialog == ResultDialog(killCall'.result)
           called == <<Event("yes", Top.pid, ""),
                       Event("kill", killCall'.pid, killCall'.result)>>
       IN  IF dialog = "none"
             THEN /\ stack' = Pop
                  /\ events' = events \o called
             ELSE /\ stack' = Append(Pop, KillFrame(Top.pid, "result"))
                  /\ events' = events \o called
                                   \o <<Event("dialog", Top.pid, dialog)>>

\* lines 604, 606: the result dialog is closed and the handler returns
DismissResult ==
    /\ stack # << >>
    /\ Top.h = "kill"
    /\ Top.at = "result"
    /\ stack' = Pop
    /\ UNCHANGED <<analyticsVars, clock, callResult, procVars, killVars, guiVars,
                   events>>

----------------------------------------------------------------------------
(* Specifications *)

Pids == 1..MaxPid

\* what psutil.process_iter can yield: any processes, each pid once
Enumerations ==
    LET AllProcs == UNION {ProcsOf(pid) : pid \in Pids}
    IN  UNION { {e \in [1..n -> AllProcs] :
                    \A i, j \in 1..n : i # j => e[i].pid # e[j].pid}
                : n \in 0..MaxPid }

\* the engine on its own, driven by any caller
InitHistory ==
    /\ \E cap \in 1..MaxCap : EngineInit(cap)
    /\ clock = 0
    /\ ProcInit(<< >>)
    /\ KillInit({}, {})
    /\ GuiInit
    /\ LoopInit

NextHistory ==
    \/ \E s \in HistStats : update_history(s)
    \/ \E s \in HistStats : check_alerts(s)
    \/ ClockAdvance

SpecHistory == InitHistory /\ [][NextHistory]_vars

\* check_alerts over every sample
NextAlerts ==
    \/ \E s \in StatsOver(Pcts) : check_alerts(s)
    \/ ClockAdvance

SpecAlerts == InitHistory /\ [][NextAlerts]_vars

\* get_process_list over every enumeration
InitProcList ==
    /\ EngineInit(MAX_HISTORY)
    /\ clock = 0
    /\ \E e \in Enumerations : ProcInit(e)
    /\ KillInit({}, {})
    /\ GuiInit
    /\ LoopInit

NextProcList == get_process_list

SpecProcList == InitProcList /\ [][NextProcList]_vars

\* kill_process against an operating system whose processes come to an end
InitKill ==
    /\ EngineInit(MAX_HISTORY)
    /\ clock = 0
    /\ ProcInit(<< >>)
    /\ \E run \in SUBSET Pids : \E den \in SUBSET Pids : KillInit(run, den)
    /\ GuiInit
    /\ LoopInit

NextKill ==
    \/ \E pid \in Pids \cup {-1} : \E vanishes, exits \in BOOLEAN :
          kill_process(pid, vanishes, exits) /\ UNCHANGED loopVars
    \/ \E pid \in Pids : ProcessExits(pid)

SpecKill == InitKill /\ [][NextKill]_vars

\* the program: main() builds the engine and the window, the timer fires
TickReadings ==
    { [cpu |-> 8000, mem |-> [used |-> 4, total |-> 5, percent |-> 8000]],
      [cpu |-> 9004, mem |-> [used |-> 9, total |-> 10, percent |-> 9000]],
      [cpu |-> 8004, mem |-> [used |-> 19, total |-> 20, percent |-> 9520]] }

TickEnumerations ==
    { << [pid |-> 1, fault |-> "none", cpu_percent |-> Some(5000),
          memory_info |-> Some(3670016)] >>,
      << [pid |-> 1, fault |-> "none", cpu_percent |-> None,
          memory_info |-> None] >>,
      << [pid |-> 1, fault |-> "none", cpu_percent |-> Some(5000),
          memory_info |-> Some(3670016)],
         [pid |-> 2, fault |-> "none", cpu_percent |-> None,
          memory_info |-> None] >> }

Init ==
    /\ EngineInit(MAX_HISTORY)
    /\ clock = 0
    /\ ProcInit(<< >>)
    /\ KillInit({}, {})
    /\ GuiInit
    /\ LoopInit

Next ==
    \/ \E sysFails, enumFails \in BOOLEAN : \E r \in TickReadings :
          \E procs \in TickEnumerations : \E d \in 0..1 :
            refresh_dashboard(sysFails, r.cpu, r.mem, enumFails, procs, d)
              /\ UNCHANGED loopVars
    \/ ClockAdvance

Spec == Init /\ [][Next]_vars

\* the program with its user: the timer and the Kill buttons
GuiReadings ==
    { [cpu |-> 8000, mem |-> [used |-> 4, total |-> 5, percent |-> 8000]],
      [cpu |-> 9004, mem |-> [used |-> 9, total |-> 10, percent |-> 9000]] }

GuiEnumerations ==
    { << [pid |-> 1, fault |-> "none", cpu_percent |-> Some(5000),
          memory_info |-> Some(3670016)] >>,
      << [pid |-> 1, fault |-> "none", cpu_percent |-> Some(5000),
          memory_info |-> Some(3670016)],
         [pid |-> 2, fault |-> "none", cpu_percent |-> Some(8000),
          memory_info |-> None] >> }

InitGui ==
    /\ EngineInit(MAX_HISTORY)
    /\ clock = 0
    /\ ProcInit(<< >>)
    /\ \E run \in {Pids, Pids \ {1}} : KillInit(run, {2})
    /\ GuiInit
    /\ LoopInit

NextGui ==
    \/ TimerTimeout
    \/ \E sysFails \in BOOLEAN : \E r \in GuiReadings :
          \E procs \in GuiEnumerations :
            RefreshRuns(sysFails, r.cpu, r.mem, FALSE, procs, 0)
    \/ \E i \in 1..MaxPid : ClickKill(i)
    \/ AnswerNo
    \/ \E vanishes, exits \in BOOLEAN : AnswerYes(vanishes, exits)
    \/ DismissResult

SpecGui == InitGui /\ [][NextGui]_vars

\* the alert list after many ticks: lines 420 and 425 of refresh_dashboard,
\* check_alerts and update_alerts, on a list that is nearly full
EarlierItems(n) ==
    [i \in 1..n |->
        AlertText([level |-> "WARNING",
                   message |-> [text |-> "CPU usage is high:", value |-> Fmt1(8540)],
                   time |-> Strftime(i)])]

ShowAlerts(stats) ==
    /\ Len(shown) < MAX_ALERTS + MaxExtra
    /\ alerts' = CheckAlertsAt(stats, clock)
    /\ alertsFor' = <<stats>>
    /\ emitted' = alerts'
    /\ alert_list' = UpdateAlerts(alert_list, alerts')
    /\ shown' = shown \o [i \in 1..Len(alerts') |-> AlertText(alerts'[i])]
    /\ UNCHANGED <<max_history, historyVars, clock, callResult, procVars, killVars,
                   current_processes, tickResult, nTicks, lastTick, table, loopVars>>

InitAlertList ==
    /\ EngineInit(MAX_HISTORY)
    /\ clock = MAX_ALERTS
    /\ ProcInit(<< >>)
    /\ KillInit({}, {})
    /\ current_processes = << >>
    /\ tickResult = "ok"
    /\ nTicks = 0
    /\ lastTick = [sysFails |-> FALSE, sample |-> << >>, listFails |-> FALSE]
    /\ table = << >>
    /\ emitted = << >>
    /\ \E n \in (MAX_ALERTS - MaxBelow)..MAX_ALERTS :
          /\ alert_list = EarlierItems(n)
          /\ shown = EarlierItems(n)
    /\ LoopInit

NextAlertList ==
    \E s \in CompleteStats({8000, 9000, 9520}) : ShowAlerts(s)

SpecAlertList == InitAlertList /\ [][NextAlertList]_vars

----------------------------------------------------------------------------
(* Properties *)

\* C1: with capacity C, each of cpu_history, memory_history and time_history
\* holds the last min(N, C) of the N values appended to it, oldest first, in
\* the order they arrived; after more than C appends it holds exactly C.
C1_RollingWindow ==
    /\ cpu_history = LastN(cpuLog, max_history)
    /\ memory_history = LastN(memLog, max_history)
    /\ time_history = LastN(timeLog, max_history)
    /\ Len(cpuLog) > max_history => Len(cpu_history) = max_history
    /\ Len(memLog) > max_history => Len(memory_history) = max_history
    /\ Len(timeLog) > max_history => Len(time_history) = max_history
    /\ Len(cpuLog) <= max_history => cpu_history = cpuLog

\* more complete calls than the capacity, and the oldest values are gone
C1_Witness ==
    /\ callResult = "ok"
    /\ Len(memLog) > max_history
    /\ Len(memLog) = Len(timeLog)
    /\ max_history = 2
    /\ cpuLog[1] # cpuLog[2]
    /\ cpu_history = <<cpuLog[Len(cpuLog) - 1], cpuLog[Len(cpuLog)]>>

\* C2: after any update_history and check_alerts calls, also ones that fail
\* for a missing key, the three histories have one length, at most max_history.
C2_EqualLengths ==
    /\ Len(time_history) = Len(cpu_history)
    /\ Len(cpu_history) = Len(memory_history)
    /\ Len(time_history) <= max_history

IsCpuAlert(a) == a.message.text \in {"CPU usage is", "CPU usage is high:"}
IsMemAlert(a) == a.message.text \in {"Memory usage is", "Memory usage is high:"}
Levels(as) == [i \in 1..Len(as) |-> as[i].level]

RuleOf(p, levels) ==
    /\ p > Pct(90) => levels = <<"CRITICAL">>
    /\ (p > Pct(80) /\ p <= Pct(90)) => levels = <<"WARNING">>
    /\ p <= Pct(80) => levels = << >>

\* C3: for each metric of the sample, check_alerts returns one CRITICAL alert
\* above 90, one WARNING above 80 and up to 90, no alert up to 80; every alert
\* is of one of the two metrics, so there are at most two.
C3_AlertRule ==
    alertsFor # << >> =>
        /\ RuleOf(alertsFor[1].cpu_percent, Levels(SelectSeq(alerts, IsCpuAlert)))
        /\ RuleOf(alertsFor[1].memory_percent, Levels(SelectSeq(alerts, IsMemAlert)))
        /\ \A i \in 1..Len(alerts) : IsCpuAlert(alerts[i]) \/ IsMemAlert(alerts[i])
        /\ Len(alerts) <= 2

\* cpu exactly 90 gives WARNING alone, memory exactly 80 gives nothing
C3_Witness ==
    /\ alertsFor = << [cpu_percent |-> Pct(90), memory_percent |-> Pct(80)] >>
    /\ Levels(alerts) = <<"WARNING">>
    /\ IsCpuAlert(alerts[1])

\* C4: two check_alerts calls with the same sample return the same alerts,
\* levels, messages and times, whenever they are made.
C4_SameSampleSameAlerts ==
    [][(alertsFor # << >> /\ alertsFor' = alertsFor) => alerts' = alerts]_vars

\* C5: a tick in which get_system_stats fails ends with that failure, and
\* leaves the three histories and the last alerts as they were: no sample is
\* put in the place of the missing one.
C5_FailedSampleLeavesHistory ==
    [][(nTicks' = nTicks + 1 /\ lastTick'.sysFails) =>
          /\ tickResult' = "get_system_stats raised"
          /\ UNCHANGED <<time_history, cpu_history, memory_history>>
          /\ UNCHANGED <<timeLog, cpuLog, memLog, alerts, alertsFor>>]_vars

\* a tick fails on get_system_stats after one that filled the history
C5_Witness ==
    /\ lastTick.sysFails
    /\ tickResult = "get_system_stats raised"
    /\ Len(cpu_history) > 0

\* C6: a tick in which get_system_stats succeeds appends the sample to the
\* history and has check_alerts evaluate it, also when get_process_list raises.
C6_ListFailureLeavesSamplePath ==
    [][(nTicks' = nTicks + 1 /\ ~lastTick'.sysFails) =>
          /\ Len(timeLog') = Len(timeLog) + 1
          /\ Len(cpuLog') = Len(cpuLog) + 1
          /\ Len(memLog') = Len(memLog) + 1
          /\ tickResult' # "get_process_list raised"]_vars

\* C7: kill_process raises nothing; for pid -1, a pid of no running process, a
\* process the caller may not signal and a wait that times out it returns False.
C7_KillNeverRaises ==
    killCall.result # "none" =>
        /\ killCall.result \in {"True", "False"}
        /\ ( \/ killCall.pid = -1
             \/ killCall.ctor = "NoSuchProcess"
             \/ killCall.term \in {"NoSuchProcess", "AccessDenied"}
             \/ killCall.wait = "TimeoutExpired" ) => killCall.result = "False"

\* C8: kill_process returns True only if the terminate request reached the
\* process and the process was gone when the wait ended; when the wait ends
\* with the process still running it returns False.
C8_TrueOnlyIfGone ==
    /\ killCall.result = "True" =>
          /\ killCall.term = "ok"
          /\ killCall.wait = "ok"
          /\ killCall.pid \in termSent
          /\ killCall.pid \notin running
    /\ killCall.wait = "TimeoutExpired" => killCall.result = "False"

\* one process outlived its wait, a later call saw its process go
C8_Witness ==
    /\ killCall.result = "True"
    /\ \E p \in termSent : p \in running

PositionOf(pid) == CHOOSE i \in 1..Len(enumerated) : enumerated[i].pid = pid

\* C9: the list get_process_list returns is in descending order of
\* cpu_percent, entries of equal cpu_percent in the order of enumeration.
C9_SortedStable ==
    procResult.outcome = "returned" =>
        \A i, j \in 1..Len(procResult.list) : i < j =>
            LET a == procResult.list[i]
                b == procResult.list[j]
            IN  /\ a.cpu_percent[1] >= b.cpu_percent[1]
                /\ a.cpu_percent[1] = b.cpu_percent[1] =>
                      PositionOf(a.pid) < PositionOf(b.pid)

\* A(50), B(80), C(80) enumerated in this order, returned as B, C, A
C9_Witness ==
    /\ Len(enumerated) = 3
    /\ [i \in 1..3 |-> enumerated[i].cpu_percent] =
          <<Some(Pct(50)), Some(Pct(80)), Some(Pct(80))>>
    /\ procResult.outcome = "returned"
    /\ Len(procResult.list) = 3
    /\ [i \in 1..3 |-> procResult.list[i].pid] =
          <<enumerated[2].pid, enumerated[3].pid, enumerated[1].pid>>

\* C10: get_process_list always returns, and every entry of the list has a
\* number >= 0 as cpu_percent and as memory_mb, whichever details of whichever
\* processes could not be read.
C10_UnreadableDropped ==
    procResult.outcome # "none" =>
        /\ procResult.outcome = "returned"
        /\ \A i \in 1..Len(procResult.list) :
              /\ ~IsNone(procResult.list[i].cpu_percent)
              /\ procResult.list[i].cpu_percent[1] >= 0
              /\ procResult.list[i].memory_mb >= 0

\* C11: kill_process is called only right after a Yes to the confirmation
\* dialog opened for the same pid; a No is followed by no call and leaves the
\* processes as they are; every call is followed by one result dialog, Success
\* after True and Failed after False.
C11_KillOnlyAfterYes ==
    /\ [](\A i \in 1..Len(events) :
            /\ events[i].kind = "kill" =>
                  /\ i >= 3
                  /\ events[i - 1] = Event("yes", events[i].pid, "")
                  /\ events[i - 2] = Event("confirm", events[i].pid, "")
                  /\ i < Len(events)
                  /\ events[i + 1] =
                        Event("dialog", events[i].pid,
                              IF events[i].arg = "True" THEN "Success" ELSE "Failed")
                  /\ i + 2 <= Len(events) => events[i + 2].kind # "dialog"
            /\ events[i].kind = "dialog" => (i > 1 /\ events[i - 1].kind = "kill")
            /\ events[i].kind = "no" =>
                  /\ i >= 2
                  /\ events[i - 1] = Event("confirm", events[i].pid, "")
                  /\ i < Len(events) => events[i + 1].kind = "confirm")
    /\ [][(Len(events') = Len(events) + 1 /\ events'[Len(events')].kind = "no")
            => UNCHANGED killVars]_vars

\* one click was answered No, another Yes, and kill_process returned False
C11_Witness ==
    /\ \E i \in 1..Len(events) : events[i].kind = "no"
    /\ \E i \in 1..Len(events) : events[i].kind = "kill" /\ events[i].arg = "False"

\* C12: in every tick that has a sample, the alerts emitted are the ones the
\* rule gives for that sample: one per metric above 80, none for a metric at
\* or below 80, whatever earlier ticks emitted.
C12_EveryQualifyingTickAlerts ==
    [][(nTicks' = nTicks + 1 /\ lastTick'.sample # << >>) =>
          /\ RuleOf(lastTick'.sample[1].cpu_percent,
                    Levels(SelectSeq(emitted', IsCpuAlert)))
          /\ RuleOf(lastTick'.sample[1].memory_percent,
                    Levels(SelectSeq(emitted', IsMemAlert)))]_vars

\* C13: every alert emitted in a tick carries the timestamp update_history
\* stored in time_history for that tick.
C13_AlertTimeIsSampleTime ==
    \A i \in 1..Len(emitted) : emitted[i].time = timeLog[Len(timeLog)]

\* C14: at most one refresh_dashboard is on the call stack at any time; a
\* tick that ends normally appends its own sample as the newest entry of
\* each history, and nothing but a tick changes the histories.
C14_OneWriterInOrder ==
    /\ [](RefreshFrames <= 1)
    /\ [][IF nTicks' = nTicks + 1
            THEN tickResult' = "ok" =>
                   /\ cpuLog' = Append(cpuLog, lastTick'.sample[1].cpu_percent)
                   /\ memLog' = Append(memLog, lastTick'.sample[1].memory_percent)
                   /\ Len(timeLog') = Len(timeLog) + 1
                   /\ cpu_history' = LastN(cpuLog', max_history)
                   /\ memory_history' = LastN(memLog', max_history)
                   /\ time_history' = LastN(timeLog', max_history)
            ELSE UNCHANGED historyVars]_vars

\* the timer has fired while the confirmation dialog is open, after two
\* ticks with different samples
C14_Witness ==
    /\ Len(stack) = 2
    /\ stack[1].h = "kill"
    /\ stack[2].h = "refresh"
    /\ Len(cpu_history) = 2
    /\ cpu_history[1] # cpu_history[2]

\* C15: after update_alerts the list holds at most 100 items, and they are
\* the most recent texts added, in the order they were added; within one call
\* the CPU alert comes before the memory alert.
C15_AlertListBounded ==
    /\ Len(alert_list) <= 100
    /\ alert_list = LastN(shown, 100)
    /\ \A i, j \in 1..Len(emitted) :
          i < j => ~(IsMemAlert(emitted[i]) /\ IsCpuAlert(emitted[j]))
    /\ \A i \in 1..Len(emitted) :
          alert_list[Len(alert_list) - Len(emitted) + i] = AlertText(emitted[i])

\* more than 100 texts were added, the last two by one call
C15_Witness ==
    /\ Len(shown) > 100
    /\ Len(alert_list) = 100
    /\ Len(emitted) = 2

====
